---- MODULE Spec2Model ----
(***************************************************************************)
(* Markdown export plugin (provide.foundry.mkdocs_plugins.markdown_export): *)
(* the page export (on_post_page), the incremental cache, the collapsed-   *)
(* structure pass (_collapse_structure), the cross-reference rewriter      *)
(* (_update_cross_references) and the API manifest, as on_config,          *)
(* on_post_page and on_post_build run them.                                *)
(*                                                                         *)
(* Spec starts on_post_build's collapsed pass on a given output tree,      *)
(* SpecIO does so on trees where rename or rmdir fails, SpecBuild is one   *)
(* build from on_config to the manifest, SpecCache carries the cache file  *)
(* from one plugin instance to the next.  SpecConfig is a build under     *)
(* every static configuration and environment, SpecFault an incremental    *)
(* build over a cache file that may hold anything, SpecRebuild a series of *)
(* incremental builds of one site, SpecCrash a build in which the process  *)
(* is killed inside a write or a move.                                     *)
(*                                                                         *)
(* Strings are sequences of code points, so that str comparison, slicing   *)
(* (old_path[:-9]), concatenation and Path.with_suffix are computed the    *)
(* way Python computes them.  A path is the sequence of its components     *)
(* relative to output_path; <<>> is output_path itself.  A file's content  *)
(* is a record: id names the body text, links is the sequence of link      *)
(* targets t of the "[text](t)" links in that text (targets hold neither   *)
(* ")" nor "](", so the substring "](p)" occurs exactly when some target   *)
(* equals p).                                                              *)
(***************************************************************************)
EXTENDS Naturals, Integers, Sequences, FiniteSets, TLC

VARIABLES
    files,          \* output tree: file path -> content
    dirs,           \* output tree: the directories below output_path
    renamed_files,  \* self.renamed_files: insertion-ordered <<old, new>> strings
    index_files,    \* _collapse_structure: the sorted list being iterated
    idx,            \* _collapse_structure: position in index_files
    collapsed_count,\* _collapse_structure: collapsed_count
    todo,           \* _update_cross_references: files rglob has yet to yield
    updated_count,  \* _update_cross_references: updated_count
    written,        \* paths handed to atomic_write_text by the rewriter
    pc,             \* position inside on_post_build
    files0,         \* history: files when the pass started
    dirs0,          \* history: dirs when the pass started
    filesC,         \* history: files when the rewriter started
    config,         \* self.config: structure, incremental, include_api_reference
    pages,          \* the pages the host hands to on_post_page, in its order
    page_idx,       \* how many of them it has handed over
    source,         \* the source files: page -> [exists, mtime, links]
    cache,          \* self.cache: source path -> mtime
    cache_file,     \* .export_cache.json: its text, or NoFile
    api_files,      \* self.api_files
    files_processed,\* self.files_processed
    files_skipped,  \* self.files_skipped
    manifest,       \* the API manifest file: its lines, or NoFile
    last,           \* history: the latest on_post_page call and how it ended
    saved,          \* history: the dict the cache file was saved from, or NoFile
    env,            \* os.environ: the DOCS_ variables, each Unset or <<its value>>
    log_level,      \* the level on_config has set on the plugin's logger
    cache_type,     \* the Python type of self.cache: "dict" or "list"
    renamed_ever,   \* history: every old path a build has put in renamed_files
    temps,          \* the temporary files a killed atomic_write_text left
    single_file_content \* self.single_file_content: the links of each section

\* the state of the page export, the cache and the manifest
buildVars == <<config, pages, page_idx, source, cache, cache_file, api_files,
               files_processed, files_skipped, manifest, last, saved>>

\* the environment, the logger, the cache's type and what builds leave behind
extVars == <<env, log_level, cache_type, renamed_ever, temps, single_file_content>>

vars == <<files, dirs, renamed_files, index_files, idx, collapsed_count,
          todo, updated_count, written, pc, files0, dirs0, filesC,
          config, pages, page_idx, source, cache, cache_file, api_files,
          files_processed, files_skipped, manifest, last, saved,
          env, log_level, cache_type, renamed_ever, temps, single_file_content>>

----------------------------------------------------------------------------
(* Bounds of the model *)

\* largest number of files in the initial output tree
MaxFiles == 2

\* largest number of links in the files of the initial output tree
MaxLinks == 2

----------------------------------------------------------------------------
(* Strings *)

SEP == <<47>>
DOT == <<46>>
MD_SUFFIX == <<46, 109, 100>>
\* another file name in the place of "index.md" ("x.md")
INDEX_MD_OtherName == <<120, 46, 109, 100>>
\* "index.md", the name asked of rglob and compared with md_files[0].name
INDEX_MD == <<105, 110, 100, 101, 120, 46, 109, 100>>
PYCACHE == <<95, 95, 112, 121, 99, 97, 99, 104, 101, 95, 95>>

N_a == <<97>>
N_b == <<98>>
N_c == <<99>>
N_x_md == <<120, 46, 109, 100>>
N_index == <<105, 110, 100, 101, 120>>
N_index_old == <<105, 110, 100, 101, 120, 46, 111, 108, 100>>
N_v1_0 == <<118, 49, 46, 48>>

Min(m, n) == IF m < n THEN m ELSE n

\* Python's s < t on str: the first differing code point decides, a proper
\* prefix is smaller
StrLess(s, t) ==
    LET n == Min(Len(s), Len(t))
        D == {k \in 1..n : s[k] # t[k]}
    IN  IF D = {} THEN Len(s) < Len(t)
        ELSE LET k == CHOOSE j \in D : \A i \in D : j <= i
             IN  s[k] < t[k]

\* s.endswith(t)
EndsWith(s, t) ==
    /\ Len(t) <= Len(s)
    /\ SubSeq(s, Len(s) - Len(t) + 1, Len(s)) = t

\* s[:-n]
DropLast(s, n) == IF Len(s) > n THEN SubSeq(s, 1, Len(s) - n) ELSE <<>>

\* s.split("/")
RECURSIVE Split(_)
Split(s) ==
    LET seps == {k \in 1..Len(s) : s[k] = SEP[1]}
    IN  IF seps = {} THEN <<s>>
        ELSE LET i == CHOOSE k \in seps : \A j \in seps : k <= j
             IN  <<SubSeq(s, 1, i - 1)>> \o Split(SubSeq(s, i + 1, Len(s)))

----------------------------------------------------------------------------
(* Paths *)

Front(p) == SubSeq(p, 1, Len(p) - 1)
Last(p) == p[Len(p)]

\* Path.parent
Parent(p) == Front(p)

\* Path.name
Name(p) == Last(p)

\* d is a proper ancestor directory of p
IsPrefix(d, p) == Len(d) < Len(p) /\ SubSeq(p, 1, Len(d)) = d

\* PurePath.__lt__: the tuples of components are compared
PathLess(p, q) ==
    LET n == Min(Len(p), Len(q))
        D == {k \in 1..n : p[k] # q[k]}
    IN  IF D = {} THEN Len(p) < Len(q)
        ELSE LET k == CHOOSE j \in D : \A i \in D : j <= i
             IN  StrLess(p[k], q[k])

\* str(path.relative_to(output_path))
RECURSIVE Str(_)
Str(p) ==
    IF Len(p) = 0 THEN DOT
    ELSE IF Len(p) = 1 THEN p[1]
    ELSE Str(Front(p)) \o SEP \o Last(p)

\* PurePath.suffix: name[i:] for the last dot, unless the dot is the first
\* or the last character
Suffix(name) ==
    LET dots == {k \in 1..Len(name) : name[k] = DOT[1]}
    IN  IF dots = {} THEN <<>>
        ELSE LET i == CHOOSE k \in dots : \A j \in dots : j <= k
             IN  IF 1 < i /\ i < Len(name) THEN SubSeq(name, i, Len(name))
                 ELSE <<>>

\* PurePath.with_suffix(suffix): the old suffix, if any, is replaced
WithSuffix(p, suffix) ==
    LET name == Name(p)
        old_suffix == Suffix(name)
    IN  IF old_suffix = <<>> THEN Front(p) \o <<name \o suffix>>
        ELSE Front(p) \o <<DropLast(name, Len(old_suffix)) \o suffix>>

\* sorted(S, reverse=True)
RECURSIVE SortedReverse(_)
SortedReverse(S) ==
    IF S = {} THEN <<>>
    ELSE LET m == CHOOSE x \in S : \A y \in S \ {x} : PathLess(y, x)
         IN  <<m>> \o SortedReverse(S \ {m})

----------------------------------------------------------------------------
(* The output tree *)

FilePaths == DOMAIN files
Entries == FilePaths \cup dirs

\* the directories an exported file's parents.mkdir creates
DirsOf(S) == UNION {{SubSeq(p, 1, k) : k \in 1..(Len(p) - 1)} : p \in S}

\* rglob(pattern) for a pattern without wildcard: every entry so named
RGlobName(name) == {p \in Entries : Name(p) = name}

\* rglob("*.md"): every entry whose name ends in .md
RGlobMd == {p \in Entries : EndsWith(Name(p), MD_SUFFIX)}

\* parent_dir.glob("*.md")
GlobMd(d) == {p \in Entries : Parent(p) = d /\ EndsWith(Name(p), MD_SUFFIX)}

\* [p for p in parent_dir.iterdir() if p.is_dir() and p.name != "__pycache__"]
SubDirs(d) == {p \in dirs : Parent(p) = d /\ Name(p) # PYCACHE}

\* the criterion with the subdirectory test inverted ("and subdirs")
CollapseCriterionSubdirsInverted(d) ==
    /\ Cardinality(GlobMd(d)) = 1
    /\ \A p \in GlobMd(d) : Name(p) = INDEX_MD
    /\ SubDirs(d) # {}

\* len(md_files) == 1 and md_files[0].name == "index.md" and not subdirs
CollapseCriterion(d) ==
    /\ Cardinality(GlobMd(d)) = 1
    /\ \A p \in GlobMd(d) : Name(p) = INDEX_MD
    /\ SubDirs(d) = {}

\* parent_dir == self.output_path
IsRoot(d) == d = <<>>

----------------------------------------------------------------------------
(* self.renamed_files, a dict kept as its insertion-ordered items *)

Keys(m) == {m[k][1] : k \in DOMAIN m}

\* the item recorded under the index file's name instead of its path
\* relative to output_path
DictSetByName(m, key, value) ==
    LET name == Name(Split(key))
    IN  IF name \in Keys(m)
        THEN [k \in DOMAIN m |-> IF m[k][1] = name THEN <<name, value>> ELSE m[k]]
        ELSE Append(m, <<name, value>>)

\* m[key] = value
DictSet(m, key, value) ==
    IF key \in Keys(m)
    THEN [k \in DOMAIN m |-> IF m[k][1] = key THEN <<key, value>> ELSE m[k]]
    ELSE Append(m, <<key, value>>)

----------------------------------------------------------------------------
(* Initial output trees *)

CandidateFiles ==
    { <<INDEX_MD>>,
      <<N_a, INDEX_MD>>,
      <<N_a, N_x_md>>,
      <<N_a, N_b, INDEX_MD>>,
      <<N_a, N_b, N_c, INDEX_MD>>,
      <<N_a, N_index, INDEX_MD>>,
      <<N_a, N_index_old, INDEX_MD>>,
      <<N_v1_0, INDEX_MD>> }

TreeShapes ==
    {S \in SUBSET CandidateFiles : S # {} /\ Cardinality(S) <= MaxFiles}

\* link targets as written in the markdown text
LinkTargets ==
    { Str(<<N_a, N_b, INDEX_MD>>),
      Str(<<N_a, N_b>>),
      Str(<<N_a, N_b>>) \o SEP,
      Str(<<N_a, N_index>>) \o SEP,
      Str(<<N_b>>) \o SEP }

\* the links placed in file p, in the order written: link k is written in
\* file where[k] with target what[k]
RECURSIVE LinksIn(_, _, _)
LinksIn(p, where, what) ==
    IF where = <<>> THEN <<>>
    ELSE IF where[1] = p
         THEN <<what[1]>> \o LinksIn(p, Tail(where), Tail(what))
         ELSE LinksIn(p, Tail(where), Tail(what))

\* a file that is not there; a file that is there is <<its content>>
NoFile == <<>>

\* a dict with no entry
EmptyDict == <<>>

\* no on_post_page call has been made
NoCall == [page |-> <<>>, outcome |-> "none"]

\* an environment variable that is not set; one that is set is <<its value>>
Unset == <<>>

\* no DOCS_ variable is set
NoEnv ==
    [DOCS_INCLUDE_API |-> Unset, DOCS_SINGLE_FILE |-> Unset,
     DOCS_INCREMENTAL |-> Unset, DOCS_STRUCTURE |-> Unset, DOCS_VERBOSE |-> Unset]

\* no DOCS_ variable is set, the logger has the level it is created with,
\* no build has run and no write was ever cut short
Quiet ==
    /\ env = NoEnv
    /\ log_level = "NOTSET"
    /\ renamed_ever = {}
    /\ temps = {}

\* the fields __init__ sets, other than renamed_files
Constructed ==
    /\ cache = EmptyDict
    /\ cache_type = "dict"
    /\ single_file_content = <<>>
    /\ api_files = <<>>
    /\ files_processed = 0
    /\ files_skipped = 0

\* on_post_build is entered with structure "collapsed" over a tree that is
\* already there: no page, no cache file, no manifest
NoPages ==
    /\ config = [structure |-> "collapsed", incremental |-> FALSE,
                 include_api_reference |-> TRUE, single_file |-> FALSE,
                 verbose |-> FALSE]
    /\ Quiet
    /\ pages = <<>>
    /\ page_idx = 0
    /\ source = <<>>
    /\ cache_file = NoFile
    /\ manifest = NoFile
    /\ last = NoCall
    /\ saved = NoFile

Init ==
    /\ \E S \in TreeShapes : \E n \in 0..MaxLinks :
       \E where \in [1..n -> S] : \E what \in [1..n -> LinkTargets] :
         /\ files = [p \in S |-> [id |-> p, links |-> LinksIn(p, where, what)]]
         /\ dirs = DirsOf(S)
    /\ renamed_files = <<>>
    /\ index_files = <<>>
    /\ idx = 0
    /\ collapsed_count = 0
    /\ todo = {}
    /\ updated_count = 0
    /\ written = {}
    /\ pc = "collapse"
    /\ files0 = files
    /\ dirs0 = dirs
    /\ filesC = files
    /\ Constructed
    /\ NoPages

----------------------------------------------------------------------------
(* _collapse_structure *)

\* index_files = sorted(self.output_path.rglob("index.md"), reverse=True)
CollapseBegin ==
    /\ pc = "collapse"
    /\ index_files' = SortedReverse(RGlobName(INDEX_MD))
    /\ idx' = 1
    /\ collapsed_count' = 0
    /\ pc' = "collapsing"
    /\ UNCHANGED <<files, dirs, renamed_files, todo, updated_count, written,
                   files0, dirs0, filesC>>
    /\ UNCHANGED buildVars
    /\ UNCHANGED extVars

\* index_file.rename(new_path) can be carried out: the source is there and
\* the destination is not a directory
CanRename(old, new) == old \in FilePaths /\ new \notin dirs

\* the tree after index_file.rename(new_path): an existing file at new_path
\* is replaced
RenameFile(old, new) ==
    [p \in (FilePaths \ {old}) \cup {new} |->
        IF p = new THEN files[old] ELSE files[p]]

\* parent_dir.rmdir() can be carried out in the tree whose files are fs
CanRmdir(d, fs) == \A p \in (DOMAIN fs) \cup dirs : Parent(p) # d

\* one iteration of "for index_file in index_files"
CollapseExamine ==
    /\ pc = "collapsing"
    /\ idx <= Len(index_files)
    /\ LET index_file == index_files[idx]
           parent_dir == Parent(index_file)
           new_path == WithSuffix(parent_dir, MD_SUFFIX)
           old_relative == Str(index_file)
           new_relative == Str(new_path)
           moved == RenameFile(index_file, new_path)
       IN  IF IsRoot(parent_dir)
           THEN \* continue
                /\ idx' = idx + 1
                /\ UNCHANGED <<files, dirs, renamed_files, collapsed_count, pc>>
           ELSE IF parent_dir \notin dirs
           THEN \* parent_dir.iterdir() raises FileNotFoundError
                /\ pc' = "raised"
                /\ UNCHANGED <<files, dirs, renamed_files, collapsed_count, idx>>
           ELSE IF ~CollapseCriterion(parent_dir)
           THEN /\ idx' = idx + 1
                /\ UNCHANGED <<files, dirs, renamed_files, collapsed_count, pc>>
           ELSE /\ renamed_files' = DictSet(renamed_files, old_relative, new_relative)
                /\ IF ~CanRename(index_file, new_path)
                   THEN \* rename raises OSError, nothing was moved
                        /\ pc' = "raised"
                        /\ UNCHANGED <<files, dirs, collapsed_count, idx>>
                   ELSE IF ~CanRmdir(parent_dir, moved)
                   THEN \* rmdir raises OSError, the file was moved
                        /\ files' = moved
                        /\ pc' = "raised"
                        /\ UNCHANGED <<dirs, collapsed_count, idx>>
                   ELSE /\ files' = moved
                        /\ dirs' = dirs \ {parent_dir}
                        /\ collapsed_count' = collapsed_count + 1
                        /\ idx' = idx + 1
                        /\ UNCHANGED pc
    /\ UNCHANGED <<index_files, todo, updated_count, written, files0, dirs0, filesC>>
    /\ UNCHANGED buildVars
    /\ UNCHANGED extVars

\* the loop is exhausted; on_post_build goes on to _update_cross_references
CollapseFinish ==
    /\ pc = "collapsing"
    /\ idx > Len(index_files)
    /\ pc' = "rewrite"
    /\ filesC' = files
    /\ renamed_ever' = renamed_ever \cup Keys(renamed_files)
    /\ UNCHANGED <<files, dirs, renamed_files, index_files, idx, collapsed_count,
                   todo, updated_count, written, files0, dirs0>>
    /\ UNCHANGED buildVars
    /\ UNCHANGED <<env, log_level, cache_type, temps, single_file_content>>

----------------------------------------------------------------------------
(* _update_cross_references *)

\* len("/index.md"), the 9 of old_path[:-9]
IndexSuffixLen == 9

\* the patterns with the slice one short (old_path[:-8])
PatternsSliceShort(old_path, new_path) ==
    << <<old_path, new_path>>,
       <<DropLast(old_path, IndexSuffixLen - 1), new_path>>,
       <<DropLast(old_path, IndexSuffixLen - 1) \o SEP, new_path>> >>

\* the (old_pattern, new_pattern) pairs of one renamed_files item, as link
\* targets: "](" and ")" enclose both sides of every pair
Patterns(old_path, new_path) ==
    << <<old_path, new_path>>,
       <<DropLast(old_path, IndexSuffixLen), new_path>>,
       <<DropLast(old_path, IndexSuffixLen) \o SEP, new_path>> >>

\* the patterns of every item, in the order the two nested loops try them
RECURSIVE AllPatterns(_)
AllPatterns(m) ==
    IF m = <<>> THEN <<>>
    ELSE Patterns(m[1][1], m[1][2]) \o AllPatterns(Tail(m))

\* the test on the pattern alone ("if old_pattern:")
OccursAlways(links, target) == target # <<>>

\* old_pattern in content
Occurs(links, target) == \E k \in DOMAIN links : links[k] = target

\* content.replace(old_pattern, new_pattern, 1): the first occurrence only
ReplaceFirst(links, target, new) ==
    [k \in DOMAIN links |->
       IF links[k] = target /\ \A j \in 1..(k - 1) : links[j] # target
       THEN new ELSE links[k]]

\* content.replace(old_pattern, new_pattern)
Replace(links, target, new) ==
    [k \in DOMAIN links |-> IF links[k] = target THEN new ELSE links[k]]

\* the two nested loops over one file's content: the links they leave and
\* the flag updated
RECURSIVE RewriteLinks(_, _, _)
RewriteLinks(links, pats, updated) ==
    IF pats = <<>> THEN [links |-> links, updated |-> updated]
    ELSE IF Occurs(links, pats[1][1])
         THEN RewriteLinks(Replace(links, pats[1][1], pats[1][2]), Tail(pats), TRUE)
         ELSE RewriteLinks(links, Tail(pats), updated)

\* the early return, or the start of "for md_file in rglob('*.md')"
RewriteBegin ==
    /\ pc = "rewrite"
    /\ IF renamed_files = <<>>
       THEN pc' = "done" /\ UNCHANGED todo
       ELSE pc' = "rewriting" /\ todo' = RGlobMd
    /\ updated_count' = 0
    /\ UNCHANGED <<files, dirs, renamed_files, index_files, idx, collapsed_count,
                   written, files0, dirs0, filesC>>
    /\ UNCHANGED buildVars
    /\ UNCHANGED extVars

\* one iteration of the loop; rglob yields the files in directory order,
\* which is any order
RewriteFile ==
    /\ pc = "rewriting"
    /\ \E md_file \in todo :
         /\ todo' = todo \ {md_file}
         /\ IF md_file \notin FilePaths
            THEN \* read_text raises on a directory named *.md
                 /\ pc' = "raised"
                 /\ UNCHANGED <<files, updated_count, written>>
            ELSE LET r == RewriteLinks(files[md_file].links,
                                       AllPatterns(renamed_files), FALSE)
                 IN  /\ IF r.updated
                        THEN /\ files' = [files EXCEPT ![md_file].links = r.links]
                             /\ updated_count' = updated_count + 1
                             /\ written' = written \cup {md_file}
                        ELSE UNCHANGED <<files, updated_count, written>>
                     /\ UNCHANGED pc
    /\ UNCHANGED <<dirs, renamed_files, index_files, idx, collapsed_count,
                   files0, dirs0, filesC>>
    /\ UNCHANGED buildVars
    /\ UNCHANGED extVars

\* the loop is exhausted
RewriteFinish ==
    /\ pc = "rewriting"
    /\ todo = {}
    /\ pc' = "done"
    /\ UNCHANGED <<files, dirs, renamed_files, index_files, idx, collapsed_count,
                   todo, updated_count, written, files0, dirs0, filesC>>
    /\ UNCHANGED buildVars
    /\ UNCHANGED extVars

----------------------------------------------------------------------------

Next ==
    \/ CollapseBegin
    \/ CollapseExamine
    \/ CollapseFinish
    \/ RewriteBegin
    \/ RewriteFile
    \/ RewriteFinish

Spec == Init /\ [][Next]_vars

----------------------------------------------------------------------------
(* Output trees on which rename or rmdir fails *)

N_d_md == <<100, 46, 109, 100>>
N_logo_png == <<108, 111, 103, 111, 46, 112, 110, 103>>

\* a directory named d.md (with_suffix(".md") gives its own path back) and a
\* directory holding a file that is no markdown file (the criterion does not
\* count it, rmdir does)
CandidateFilesIO ==
    { <<INDEX_MD>>, <<N_d_md, INDEX_MD>>, <<N_d_md, N_x_md>>,
      <<N_a, INDEX_MD>>, <<N_a, N_logo_png>>, <<N_a, N_x_md>>,
      <<N_a, N_b, INDEX_MD>> }

TreeShapesIO ==
    {S \in SUBSET CandidateFilesIO : S # {} /\ Cardinality(S) <= MaxFiles + 1}

InitIO ==
    /\ \E S \in TreeShapesIO :
         /\ files = [p \in S |-> [id |-> p, links |-> <<>>]]
         /\ dirs = DirsOf(S)
    /\ renamed_files = <<>>
    /\ index_files = <<>>
    /\ idx = 0
    /\ collapsed_count = 0
    /\ todo = {}
    /\ updated_count = 0
    /\ written = {}
    /\ pc = "collapse"
    /\ files0 = files
    /\ dirs0 = dirs
    /\ filesC = files
    /\ Constructed
    /\ NoPages

SpecIO == InitIO /\ [][Next]_vars

----------------------------------------------------------------------------
(* Reading a string back as a path *)

\* the path a root-relative string names; a trailing slash names the same path
PathOf(s) ==
    LET parts == Split(s)
    IN  IF Last(parts) = <<>> THEN Front(parts) ELSE parts

\* the path a link target written in the file f points at: a relative link
\* is resolved against the directory of the file that holds it
Resolve(f, target) == Parent(f) \o PathOf(target)

\* the three spellings of a renamed index document as a link target
Spellings(old_path) ==
    {old_path, Str(Parent(PathOf(old_path))), Str(Parent(PathOf(old_path))) \o SEP}

\* the items of renamed_files
Items == {renamed_files[k] : k \in DOMAIN renamed_files}

\* the Collapser has completed and the Rewriter has not started
Collapsed == pc = "rewrite"

\* the Collapser and the Rewriter have both completed
Rewritten == pc = "done"

----------------------------------------------------------------------------
(* Pages, API reference pages, the cache file *)

\* largest number of pages of a build
MaxPages == 2

N_api == <<97, 112, 105>>
N_x == <<120>>
N_c_md == <<99, 46, 109, 100>>
N_index_old_md == <<105, 110, 100, 101, 120, 46, 111, 108, 100, 46, 109, 100>>
N_index_html == <<105, 110, 100, 101, 120, 46, 104, 116, 109, 108>>
HTML_SUFFIX == <<46, 104, 116, 109, 108>>
DOCS_DIR == <<47, 100, 111, 99, 115>>

\* API_PATTERNS
API_PATTERNS ==
    { <<47, 114, 101, 102, 101, 114, 101, 110, 99, 101, 47>>,
      <<47, 97, 112, 105, 47>>,
      <<83, 85, 77, 77, 65, 82, 89, 46, 109, 100>> }

\* sub in s
Contains(s, sub) ==
    \E i \in 0..(Len(s) - Len(sub)) : SubSeq(s, i + 1, i + Len(sub)) = sub

\* a page is its file's src_path (relative to the docs directory) and its
\* dest_path (relative to the site directory); the host derives dest_path
\* from src_path with directory URLs
Page(src, dest) == [src_path |-> Str(src), dest_path |-> Str(dest)]

\* the pages a build may have, in the order the host hands them over
CandidatePages ==
    << Page(<<INDEX_MD>>, <<N_index_html>>),
       Page(<<N_api, N_x_md>>, <<N_api, N_x, N_index_html>>),
       Page(<<N_a, N_api, INDEX_MD>>, <<N_a, N_api, N_index_html>>),
       Page(<<N_a, N_api, N_c_md>>, <<N_a, N_api, N_c, N_index_html>>),
       Page(<<N_a, N_api, N_index_old_md>>, <<N_a, N_api, N_index_old, N_index_html>>) >>

\* the subsequence of CandidatePages at the positions in K
RECURSIVE PagesAt(_, _)
PagesAt(K, from) ==
    IF from > Len(CandidatePages) THEN <<>>
    ELSE IF from \in K THEN <<CandidatePages[from]>> \o PagesAt(K, from + 1)
    ELSE PagesAt(K, from + 1)

PageLists ==
    {PagesAt(K, 1) : K \in {K \in SUBSET DOMAIN CandidatePages :
                              K # {} /\ Cardinality(K) <= MaxPages}}

\* _is_api_reference
IsApiReference(page) == \E pattern \in API_PATTERNS : Contains(page.src_path, pattern)

\* str(page.file.abs_src_path)
AbsSrcPath(page) == DOCS_DIR \o SEP \o page.src_path

\* len(".html"), the 5 of dest_path_str[:-5]
HtmlSuffixLen == 5

\* output_file, relative to output_path
OutputFile(page) ==
    LET dest_path_str == page.dest_path
    IN  PathOf(IF EndsWith(dest_path_str, HTML_SUFFIX)
               THEN DropLast(dest_path_str, HtmlSuffixLen) \o MD_SUFFIX
               ELSE dest_path_str)

\* m.get(key, default)
DictGet(m, key, default) ==
    IF key \in Keys(m) THEN m[CHOOSE k \in DOMAIN m : m[k][1] = key][2] ELSE default

\* Modification times are held in tenths of a second; the text json.dumps
\* writes for the float 1.5 is "1.5", for 2.0 it is "2.0".
RECURSIVE Digits(_)
Digits(n) == IF n < 10 THEN <<48 + n>> ELSE Digits(n \div 10) \o <<48 + (n % 10)>>

\* the number written without its fraction, as str(int(v)) writes it
NumTextInt(v) == Digits(v \div 10)

\* the text of a float
NumText(v) == Digits(v \div 10) \o DOT \o Digits(v % 10)

\* the value of a string of decimal digits
RECURSIVE DigitsValue(_)
DigitsValue(t) ==
    IF t = <<>> THEN 0 ELSE 10 * DigitsValue(Front(t)) + (Last(t) - 48)

\* the number a JSON number text stands for
ParseNum(t) ==
    IF \E i \in DOMAIN t : t[i] = DOT[1]
    THEN LET i == CHOOSE i \in DOMAIN t : t[i] = DOT[1]
         IN  10 * DigitsValue(SubSeq(t, 1, i - 1)) + DigitsValue(SubSeq(t, i + 1, Len(t)))
    ELSE 10 * DigitsValue(t)

QUOTE == <<34>>
COLON_SPACE == <<58, 32>>

\* one member of the JSON object: "key": number
Member(key, value) == QUOTE \o key \o QUOTE \o COLON_SPACE \o NumText(value)

\* json.dumps(self.cache, indent=2), as the sequence of the object's members
RECURSIVE Dumps(_)
Dumps(m) == IF m = <<>> THEN <<>> ELSE <<Member(m[1][1], m[1][2])>> \o Dumps(Tail(m))

\* the key and the value of one member
MemberKey(t) ==
    LET close == CHOOSE i \in 2..Len(t) : t[i] = QUOTE[1] /\ \A j \in 2..(i - 1) : t[j] # QUOTE[1]
    IN  SubSeq(t, 2, close - 1)
MemberValue(t) == ParseNum(SubSeq(t, Len(MemberKey(t)) + 5, Len(t)))

\* json.loads(text): the members enter the dict in their order
RECURSIVE LoadsInto(_, _)
LoadsInto(m, text) ==
    IF text = <<>> THEN m
    ELSE LoadsInto(DictSet(m, MemberKey(text[1]), MemberValue(text[1])), Tail(text))
Loads(text) == LoadsInto(<<>>, text)

\* A cache file's text is held as the lines between the braces of the JSON
\* object, one member a line; a text that is not a JSON object is held as
\* its lines whole.

\* the text "[]", which json.loads reads as an empty list
ArrayText == << <<91, 93>> >>

\* a text that was cut short inside a key
CutShortText == << QUOTE \o DOCS_DIR >>

\* a file whose bytes are not UTF-8 (0xFF)
UndecodableText == << <<255>> >>

\* read_text() returns: every byte is ASCII
Decodable(text) == \A i \in DOMAIN text : \A j \in DOMAIN text[i] : text[i][j] < 128

\* the line is a member "key": number
IsMember(t) ==
    /\ Len(t) >= 2
    /\ t[1] = QUOTE[1]
    /\ \E close \in 2..Len(t) :
         /\ t[close] = QUOTE[1]
         /\ \A j \in 2..(close - 1) : t[j] # QUOTE[1]
         /\ Len(t) > close + 2
         /\ SubSeq(t, close + 1, close + 2) = COLON_SPACE
         /\ \A j \in (close + 3)..Len(t) : t[j] \in 48..57 \/ t[j] = DOT[1]

\* json.loads(text) returns: the text is an object of numbers or "[]"
Parses(text) == text = ArrayText \/ \A i \in DOMAIN text : IsMember(text[i])

\* _load_cache: what self.cache holds afterwards.  A missing file, and a
\* file whose read or whose parse raises, give {}; whatever json.loads
\* returns is taken as it is.
LoadCache(file) ==
    IF file = NoFile THEN EmptyDict
    ELSE IF ~Decodable(file[1]) \/ ~Parses(file[1]) THEN EmptyDict
    ELSE IF file[1] = ArrayText THEN <<>>
    ELSE Loads(file[1])

\* the Python type of what _load_cache leaves in self.cache
LoadedType(file) ==
    IF file # NoFile /\ Decodable(file[1]) /\ file[1] = ArrayText THEN "list" ELSE "dict"

\* the test with >= in the place of >
ShouldProcessNotOlder(k) ==
    IF ~config.incremental THEN TRUE
    ELSE IF ~source[k].exists THEN TRUE
    ELSE source[k].mtime >= DictGet(cache, AbsSrcPath(pages[k]), 0)

\* _should_process, for the k-th page
ShouldProcess(k) ==
    IF ~config.incremental THEN TRUE
    ELSE IF ~source[k].exists THEN TRUE
    ELSE source[k].mtime > DictGet(cache, AbsSrcPath(pages[k]), 0)

----------------------------------------------------------------------------
(* A build: on_config, on_post_page for every page, on_post_build *)

Configs ==
    [structure : {"mirror", "collapsed"}, incremental : BOOLEAN,
     include_api_reference : BOOLEAN, single_file : {FALSE}, verbose : {FALSE}]

\* modification times of source files, in tenths of a second
Mtimes == {15, 20}

\* the time of the build that wrote the cache file the build starts with
PriorTime == CHOOSE t \in Mtimes : \A u \in Mtimes : t <= u

SourceStates ==
    {[exists |-> FALSE, mtime |-> 0, links |-> <<>>]}
      \cup [exists : {TRUE}, mtime : Mtimes, links : {<<>>}]

\* the dict an earlier incremental build saved after it exported the pages
\* at the positions in K
RECURSIVE PriorCache(_, _, _)
PriorCache(ps, K, from) ==
    IF from > Len(ps) THEN <<>>
    ELSE IF from \in K
         THEN <<<<AbsSrcPath(ps[from]), PriorTime>>>> \o PriorCache(ps, K, from + 1)
         ELSE PriorCache(ps, K, from + 1)

\* the content atomic_write_text leaves at an exported page's output file
Exported(k) == [id |-> OutputFile(pages[k]), links |-> source[k].links]

\* a build starts: the output tree holds what the earlier build exported in
\* mirror structure, the cache file what it saved
InitBuild ==
    /\ \E c \in Configs : \E ps \in PageLists :
       \E src \in [DOMAIN ps -> SourceStates] :
       \E K \in (IF c.incremental THEN SUBSET DOMAIN ps ELSE {{}}) :
         /\ config = c
         /\ pages = ps
         /\ source = src
         /\ cache_file = IF K = {} THEN NoFile ELSE <<Dumps(PriorCache(ps, K, 1))>>
         /\ files = [f \in {OutputFile(ps[k]) : k \in K} |-> [id |-> f, links |-> <<>>]]
         /\ dirs = DirsOf({OutputFile(ps[k]) : k \in K})
    /\ page_idx = 0
    /\ manifest = NoFile
    /\ last = NoCall
    /\ saved = NoFile
    /\ Constructed
    /\ Quiet
    /\ renamed_files = <<>>
    /\ index_files = <<>>
    /\ idx = 0
    /\ collapsed_count = 0
    /\ todo = {}
    /\ updated_count = 0
    /\ written = {}
    /\ pc = "config"
    /\ files0 = files
    /\ dirs0 = dirs
    /\ filesC = files

\* str.lower() of an ASCII string
Lower(s) == [i \in DOMAIN s |-> IF s[i] \in 65..90 THEN s[i] + 32 ELSE s[i]]

\* ("true", "1", "yes")
TrueWords == { <<116, 114, 117, 101>>, <<49>>, <<121, 101, 115>> }

\* os.environ[VAR].lower() in ("true", "1", "yes")
EnvFlag(value) == Lower(value) \in TrueWords

\* "mirror" and "collapsed", the two values of ("mirror", "collapsed")
S_mirror == <<109, 105, 114, 114, 111, 114>>
S_collapsed == <<99, 111, 108, 108, 97, 112, 115, 101, 100>>

\* self.config after the environment overrides of on_config.  An invalid
\* DOCS_STRUCTURE is answered with a warning and leaves the option as it is;
\* DOCS_VERBOSE is not stored in self.config.
ConfigAfterEnv ==
    [config EXCEPT
       !.include_api_reference =
          IF env.DOCS_INCLUDE_API # Unset THEN EnvFlag(env.DOCS_INCLUDE_API[1]) ELSE @,
       !.single_file =
          IF env.DOCS_SINGLE_FILE # Unset THEN EnvFlag(env.DOCS_SINGLE_FILE[1]) ELSE @,
       !.incremental =
          IF env.DOCS_INCREMENTAL # Unset THEN EnvFlag(env.DOCS_INCREMENTAL[1]) ELSE @,
       !.structure =
          IF env.DOCS_STRUCTURE = Unset THEN @
          ELSE LET structure == Lower(env.DOCS_STRUCTURE[1])
               IN  IF structure = S_mirror THEN "mirror"
                   ELSE IF structure = S_collapsed THEN "collapsed"
                   ELSE @]

\* the local variable verbose of on_config
Verbose ==
    IF env.DOCS_VERBOSE # Unset THEN EnvFlag(env.DOCS_VERBOSE[1]) ELSE config.verbose

\* the "Skipping ...", "Exported: ..." and "Navigation has ..." messages are
\* written: the call of log.debug is guarded by self.config["verbose"], and
\* the logger passes a debug record only at level DEBUG (the host's loggers
\* are at INFO)
DebugMessages == config.verbose /\ log_level = "DEBUG"

\* on_config, the plugin being enabled: the environment overrides, the log
\* level, and the cache loaded for an incremental build
OnConfig ==
    /\ pc = "config"
    /\ config' = ConfigAfterEnv
    /\ log_level' = IF Verbose THEN "DEBUG" ELSE log_level
    /\ cache' = IF config'.incremental THEN LoadCache(cache_file) ELSE cache
    /\ cache_type' = IF config'.incremental THEN LoadedType(cache_file) ELSE cache_type
    /\ pc' = "pages"
    /\ UNCHANGED <<files, dirs, renamed_files, index_files, idx, collapsed_count,
                   todo, updated_count, written, files0, dirs0, filesC>>
    /\ UNCHANGED <<pages, page_idx, source, cache_file, api_files,
                   files_processed, files_skipped, manifest, last, saved>>
    /\ UNCHANGED <<env, renamed_ever, temps, single_file_content>>

\* the directories above f, and those of them that are not there yet
Parents(f) == {SubSeq(f, 1, k) : k \in 1..(Len(f) - 1)}
MissingParents(f) == Parents(f) \ dirs

\* the ways on_post_page can end for the k-th page.  self.cache.get raises
\* AttributeError when self.cache is a list.  Whether mkdir, the read
\* of the source or the write of the output fails is up to the file system;
\* mkdir fails for certain when a parent is a file, the write when the
\* output file is a directory.
Outcomes(k) ==
    LET page == pages[k]
        output_file == OutputFile(page)
    IN  IF ~config.include_api_reference /\ IsApiReference(page) THEN {"excluded"}
        ELSE IF config.incremental /\ source[k].exists /\ cache_type # "dict"
             THEN {"no_get"}
        ELSE IF ~ShouldProcess(k) THEN {"unchanged"}
        ELSE IF Parents(output_file) \cap FilePaths # {} THEN {"mkdir_failed"}
        ELSE {"write_failed"}
             \cup (IF MissingParents(output_file) # {} THEN {"mkdir_failed"} ELSE {})
             \cup (IF source[k].exists THEN {"read_failed"} ELSE {})
             \cup (IF output_file \notin dirs THEN {"exported"} ELSE {})

\* self.cache after the call, with the update made before the write
CacheAfterEarlyUpdate(k, outcome) ==
    IF /\ outcome \in {"exported", "write_failed"}
       /\ config.incremental
       /\ source[k].exists
    THEN DictSet(cache, AbsSrcPath(pages[k]), source[k].mtime)
    ELSE cache

\* self.cache after the call: the update follows atomic_write_text inside
\* the try block
CacheAfter(k, outcome) ==
    IF /\ outcome = "exported"
       /\ config.incremental
       /\ source[k].exists
    THEN DictSet(cache, AbsSrcPath(pages[k]), source[k].mtime)
    ELSE cache

\* on_post_page for the next page: the API exclusion, then
\* _export_page_markdown
OnPostPage ==
    /\ pc = "pages"
    /\ page_idx < Len(pages)
    /\ LET k == page_idx + 1
           page == pages[k]
           output_file == OutputFile(page)
           missing == MissingParents(output_file)
       IN  \E outcome \in Outcomes(k) :
           \E n \in (IF outcome = "mkdir_failed" /\ missing # {}
                     THEN 0..(Cardinality(missing) - 1) ELSE {0}) :
             /\ page_idx' = k
             /\ last' = [page |-> page, outcome |-> outcome]
             /\ dirs' = dirs \cup
                   (IF outcome \in {"excluded", "unchanged", "no_get"} THEN {}
                    ELSE IF outcome = "mkdir_failed"
                    THEN \* parents.mkdir made the n topmost directories
                         {m \in missing :
                            Cardinality({x \in missing : Len(x) < Len(m)}) < n}
                    ELSE missing)
             /\ files' = IF outcome = "exported"
                         THEN [p \in FilePaths \cup {output_file} |->
                                 IF p = output_file THEN Exported(k) ELSE files[p]]
                         ELSE files
             /\ api_files' = IF outcome = "exported" /\ IsApiReference(page)
                             THEN Append(api_files, Str(output_file))
                             ELSE api_files
             /\ single_file_content' =
                   IF outcome = "exported" /\ config.single_file
                   THEN Append(single_file_content, Exported(k).links)
                   ELSE single_file_content
             /\ cache' = CacheAfter(k, outcome)
             /\ files_processed' = IF outcome = "exported"
                                   THEN files_processed + 1 ELSE files_processed
             /\ files_skipped' = IF outcome \in {"excluded", "unchanged"}
                                 THEN files_skipped + 1 ELSE files_skipped
             /\ pc' = IF outcome \in {"mkdir_failed", "no_get"} THEN "raised" ELSE pc
    /\ UNCHANGED <<renamed_files, index_files, idx, collapsed_count, todo,
                   updated_count, written, files0, dirs0, filesC>>
    /\ UNCHANGED <<config, pages, source, cache_file, manifest, saved>>
    /\ UNCHANGED <<env, log_level, cache_type, renamed_ever, temps>>

\* the structure option, taken as a flag that is set
StructureIsSet == config.structure # ""

\* self.config["structure"] == "collapsed"
CollapseRequested == config.structure = "collapsed"

\* single_file_name
SINGLE_FILE_NAME == <<70, 85, 76, 76, 46, 109, 100>>

\* "".join(parts), as the links of the sections in their order
RECURSIVE Joined(_)
Joined(parts) == IF parts = <<>> THEN <<>> ELSE parts[1] \o Joined(Tail(parts))

\* the tree after _generate_single_file
WithSingleFile ==
    [p \in FilePaths \cup {<<SINGLE_FILE_NAME>>} |->
       IF p = <<SINGLE_FILE_NAME>>
       THEN [id |-> <<SINGLE_FILE_NAME>>, links |-> Joined(single_file_content)]
       ELSE files[p]]

\* on_post_build is entered after the last page: the single file is
\* written when requested (a failure of that write is not caught), and the
\* Collapser and the Rewriter are run for the collapsed structure only
OnPostBuild ==
    /\ pc = "pages"
    /\ page_idx = Len(pages)
    /\ \E written_ok \in (IF config.single_file THEN BOOLEAN ELSE {TRUE}) :
         /\ pc' = IF ~written_ok THEN "raised"
                  ELSE IF CollapseRequested THEN "collapse" ELSE "save"
         /\ files' = IF config.single_file /\ written_ok THEN WithSingleFile ELSE files
    /\ files0' = files'
    /\ dirs0' = dirs
    /\ filesC' = files'
    /\ UNCHANGED <<dirs, renamed_files, index_files, idx, collapsed_count,
                   todo, updated_count, written>>
    /\ UNCHANGED buildVars
    /\ UNCHANGED extVars

\* json.dumps(self.cache, indent=2)
CacheText == IF cache_type = "list" THEN ArrayText ELSE Dumps(cache)

\* on_post_build goes on: _save_cache for an incremental build.  write_text
\* opens the file, which empties it, and writes; when the open fails the
\* file is as it was, when the write fails it is cut short.  Either failure
\* is caught and logged.
SaveCache ==
    /\ pc \in {"done", "save"}
    /\ IF config.incremental
       THEN \E outcome \in {"saved", "not_opened", "cut_short"} :
              /\ cache_file' = IF outcome = "saved" THEN <<CacheText>>
                               ELSE IF outcome = "cut_short" THEN <<CutShortText>>
                               ELSE cache_file
              /\ saved' = IF outcome = "saved" /\ cache_type = "dict" THEN <<cache>>
                          ELSE IF outcome = "not_opened" THEN saved
                          ELSE NoFile
       ELSE UNCHANGED <<cache_file, saved>>
    /\ pc' = "manifest"
    /\ UNCHANGED <<files, dirs, renamed_files, index_files, idx, collapsed_count,
                   todo, updated_count, written, files0, dirs0, filesC>>
    /\ UNCHANGED <<config, pages, page_idx, source, cache, api_files,
                   files_processed, files_skipped, manifest, last>>
    /\ UNCHANGED extVars

\* sorted(strings)
RECURSIVE Insert(_, _)
Insert(x, s) ==
    IF s = <<>> THEN <<x>>
    ELSE IF StrLess(x, s[1]) THEN <<x>> \o s
    ELSE <<s[1]>> \o Insert(x, Tail(s))
RECURSIVE Sorted(_)
Sorted(s) == IF s = <<>> THEN <<>> ELSE Insert(s[1], Sorted(Tail(s)))

\* the manifest lists the recorded paths as they are
ManifestContentUnmapped ==
    LET sorted_files == Sorted(api_files)
    IN  [total |-> Len(sorted_files), paths |-> sorted_files]

\* the manifest _write_api_manifest writes: the "# Total files:" number and
\* the path lines
ManifestContent ==
    LET sorted_files ==
          Sorted([k \in DOMAIN api_files |-> DictGet(renamed_files, api_files[k], api_files[k])])
    IN  [total |-> Len(sorted_files), paths |-> sorted_files]

\* on_post_build goes on: _write_api_manifest when API pages were recorded
WriteApiManifest ==
    /\ pc = "manifest"
    /\ manifest' = IF api_files # <<>> THEN <<ManifestContent>> ELSE manifest
    /\ pc' = "built"
    /\ UNCHANGED <<files, dirs, renamed_files, index_files, idx, collapsed_count,
                   todo, updated_count, written, files0, dirs0, filesC>>
    /\ UNCHANGED <<config, pages, page_idx, source, cache, cache_file, api_files,
                   files_processed, files_skipped, last, saved>>
    /\ UNCHANGED extVars

NextBuild ==
    \/ OnConfig
    \/ OnPostPage
    \/ OnPostBuild
    \/ CollapseBegin
    \/ CollapseExamine
    \/ CollapseFinish
    \/ RewriteBegin
    \/ RewriteFile
    \/ RewriteFinish
    \/ SaveCache
    \/ WriteApiManifest

SpecBuild == InitBuild /\ [][NextBuild]_vars

----------------------------------------------------------------------------
(* The cache from one plugin instance to the next *)

\* the dict with the source paths of the candidate pages at the positions
\* in K, each with its time
RECURSIVE CacheOf(_, _, _)
CacheOf(K, times, from) ==
    IF from > Len(CandidatePages) THEN <<>>
    ELSE IF from \in K
         THEN <<<<AbsSrcPath(CandidatePages[from]), times[from]>>>> \o CacheOf(K, times, from + 1)
         ELSE CacheOf(K, times, from + 1)

\* an incremental build has come to _save_cache with some dict in self.cache
InitCache ==
    /\ \E K \in {K \in SUBSET DOMAIN CandidatePages : Cardinality(K) <= MaxPages} :
       \E times \in [K -> Mtimes] :
         cache = CacheOf(K, times, 1)
    /\ config = [structure |-> "mirror", incremental |-> TRUE,
                 include_api_reference |-> TRUE, single_file |-> FALSE,
                 verbose |-> FALSE]
    /\ Quiet
    /\ cache_type = "dict"
    /\ single_file_content = <<>>
    /\ pc = "save"
    /\ pages = <<>>
    /\ page_idx = 0
    /\ source = <<>>
    /\ cache_file = NoFile
    /\ manifest = NoFile
    /\ last = NoCall
    /\ saved = NoFile
    /\ api_files = <<>>
    /\ files_processed = 0
    /\ files_skipped = 0
    /\ files = <<>>
    /\ dirs = {}
    /\ renamed_files = <<>>
    /\ index_files = <<>>
    /\ idx = 0
    /\ collapsed_count = 0
    /\ todo = {}
    /\ updated_count = 0
    /\ written = {}
    /\ files0 = files
    /\ dirs0 = dirs
    /\ filesC = files

\* the host is run again: a new plugin instance is constructed; the files
\* stay as the build left them
NewInstance ==
    /\ pc = "built"
    /\ pc' = "config"
    /\ cache' = EmptyDict
    /\ api_files' = <<>>
    /\ files_processed' = 0
    /\ files_skipped' = 0
    /\ renamed_files' = <<>>
    /\ page_idx' = 0
    /\ last' = NoCall
    /\ index_files' = <<>>
    /\ idx' = 0
    /\ collapsed_count' = 0
    /\ todo' = {}
    /\ updated_count' = 0
    /\ written' = {}
    /\ cache_type' = "dict"
    /\ single_file_content' = <<>>
    /\ UNCHANGED <<files, dirs, files0, dirs0, filesC, config, pages, source,
                   cache_file, manifest, saved>>
    /\ UNCHANGED <<env, log_level, renamed_ever, temps>>

NextCache ==
    \/ SaveCache
    \/ WriteApiManifest
    \/ NewInstance
    \/ OnConfig

SpecCache == InitCache /\ [][NextCache]_vars

----------------------------------------------------------------------------
(* The options on_config leaves in effect *)

\* the static configuration, every option either way
FullConfigs ==
    [structure : {"mirror", "collapsed"}, incremental : BOOLEAN,
     include_api_reference : BOOLEAN, single_file : BOOLEAN, verbose : BOOLEAN]

\* settings of a flag variable: not set, "True", "0"
FlagSettings == {Unset, << <<84, 114, 117, 101>> >>, << <<48>> >>}

\* settings of DOCS_STRUCTURE: not set, "mirror", "Collapsed", "flat"
StructureSettings ==
    {Unset, <<S_mirror>>, << <<67, 111, 108, 108, 97, 112, 115, 101, 100>> >>,
     << <<102, 108, 97, 116>> >>}

Envs ==
    [DOCS_INCLUDE_API : FlagSettings, DOCS_SINGLE_FILE : FlagSettings,
     DOCS_INCREMENTAL : FlagSettings, DOCS_STRUCTURE : StructureSettings,
     DOCS_VERBOSE : FlagSettings]

\* a build with no page starts over the tree index.md, a/index.md, where
\* index.md links to "a/"
InitConfig ==
    /\ config \in FullConfigs
    /\ env \in Envs
    /\ files = [p \in {<<INDEX_MD>>, <<N_a, INDEX_MD>>} |->
                  [id |-> p, links |-> IF p = <<INDEX_MD>> THEN <<N_a \o SEP>> ELSE <<>>]]
    /\ dirs = {<<N_a>>}
    /\ pages = <<>>
    /\ page_idx = 0
    /\ source = <<>>
    /\ cache_file = NoFile
    /\ manifest = NoFile
    /\ last = NoCall
    /\ saved = NoFile
    /\ Constructed
    /\ log_level = "NOTSET"
    /\ renamed_ever = {}
    /\ temps = {}
    /\ renamed_files = <<>>
    /\ index_files = <<>>
    /\ idx = 0
    /\ collapsed_count = 0
    /\ todo = {}
    /\ updated_count = 0
    /\ written = {}
    /\ pc = "config"
    /\ files0 = files
    /\ dirs0 = dirs
    /\ filesC = files

NextConfig ==
    \/ OnConfig
    \/ OnPostBuild
    \/ CollapseBegin
    \/ CollapseExamine
    \/ CollapseFinish
    \/ RewriteBegin
    \/ RewriteFile
    \/ RewriteFinish
    \/ SaveCache
    \/ WriteApiManifest

SpecConfig == InitConfig /\ [][NextConfig]_vars

----------------------------------------------------------------------------
(* An incremental build over a cache file that may hold anything *)

\* the cache file is missing, holds what an earlier build saved for the
\* first page, or holds something else
CacheFiles(ps) ==
    {NoFile, <<Dumps(PriorCache(ps, {1}, 1))>>, <<ArrayText>>, <<CutShortText>>,
     <<UndecodableText>>}

\* an incremental build starts on an empty output tree
InitFault ==
    /\ \E structure \in {"mirror", "collapsed"} : \E ps \in PageLists :
       \E src \in [DOMAIN ps -> SourceStates] :
         /\ config = [structure |-> structure, incremental |-> TRUE,
                      include_api_reference |-> TRUE, single_file |-> FALSE,
                      verbose |-> FALSE]
         /\ pages = ps
         /\ source = src
         /\ cache_file \in CacheFiles(ps)
    /\ files = <<>>
    /\ dirs = {}
    /\ page_idx = 0
    /\ manifest = NoFile
    /\ last = NoCall
    /\ saved = NoFile
    /\ Constructed
    /\ Quiet
    /\ renamed_files = <<>>
    /\ index_files = <<>>
    /\ idx = 0
    /\ collapsed_count = 0
    /\ todo = {}
    /\ updated_count = 0
    /\ written = {}
    /\ pc = "config"
    /\ files0 = files
    /\ dirs0 = dirs
    /\ filesC = files

SpecFault == InitFault /\ [][NextBuild]_vars

----------------------------------------------------------------------------
(* Incremental builds one after the other *)

\* the pages of the site: index.md, a/api/index.md and a/api/c.md
SitePages == {1, 3, 4}

\* index.md links to the directory of a/api/index.md, or holds no link
SiteLinks(page) ==
    IF page = CandidatePages[1] THEN {<<>>, <<Str(<<N_a, N_api>>) \o SEP>>} ELSE {<<>>}

\* the first incremental build of a site: every source is there, the output
\* tree is empty and there is no cache file
InitRebuild ==
    /\ \E structure \in {"mirror", "collapsed"} :
       \E K \in {K \in SUBSET SitePages : K # {} /\ Cardinality(K) <= MaxPages} :
         /\ config = [structure |-> structure, incremental |-> TRUE,
                      include_api_reference |-> TRUE, single_file |-> FALSE,
                      verbose |-> FALSE]
         /\ pages = PagesAt(K, 1)
         /\ \E links \in [DOMAIN pages -> UNION {SiteLinks(CandidatePages[j]) : j \in K}] :
              /\ \A k \in DOMAIN pages : links[k] \in SiteLinks(pages[k])
              /\ source = [k \in DOMAIN pages |->
                             [exists |-> TRUE, mtime |-> PriorTime, links |-> links[k]]]
    /\ cache_file = NoFile
    /\ files = <<>>
    /\ dirs = {}
    /\ page_idx = 0
    /\ manifest = NoFile
    /\ last = NoCall
    /\ saved = NoFile
    /\ Constructed
    /\ Quiet
    /\ renamed_files = <<>>
    /\ index_files = <<>>
    /\ idx = 0
    /\ collapsed_count = 0
    /\ todo = {}
    /\ updated_count = 0
    /\ written = {}
    /\ pc = "config"
    /\ files0 = files
    /\ dirs0 = dirs
    /\ filesC = files

\* between two builds a source file is saved again
TouchSource ==
    /\ pc = "built"
    /\ \E k \in DOMAIN source : \E t \in Mtimes :
         /\ t > source[k].mtime
         /\ source' = [source EXCEPT ![k].mtime = t]
    /\ UNCHANGED <<files, dirs, renamed_files, index_files, idx, collapsed_count,
                   todo, updated_count, written, pc, files0, dirs0, filesC>>
    /\ UNCHANGED <<config, pages, page_idx, cache, cache_file, api_files,
                   files_processed, files_skipped, manifest, last, saved>>
    /\ UNCHANGED extVars

\* between two builds the output directory is removed, the manifest in it
\* included; the cache file is outside it
WipeOutput ==
    /\ pc = "built"
    /\ FilePaths # {}
    /\ files' = <<>>
    /\ dirs' = {}
    /\ manifest' = NoFile
    /\ UNCHANGED <<renamed_files, index_files, idx, collapsed_count,
                   todo, updated_count, written, pc, files0, dirs0, filesC>>
    /\ UNCHANGED <<config, pages, page_idx, source, cache, cache_file, api_files,
                   files_processed, files_skipped, last, saved>>
    /\ UNCHANGED extVars

NextRebuild ==
    \/ NextBuild
    \/ NewInstance
    \/ TouchSource
    \/ WipeOutput

SpecRebuild == InitRebuild /\ [][NextRebuild]_vars

----------------------------------------------------------------------------
(* The build process is killed inside a write *)

\* the content of a file that was cut short
Truncated == [id |-> <<>>, links |-> <<>>]

\* the tree in which the file at path holds content
FilesWith(path, content) ==
    [p \in FilePaths \cup {path} |-> IF p = path THEN content ELSE files[p]]

\* atomic_write_text(path, content) is killed: the temporary file beside
\* path was not yet made, was cut short, or was complete and not yet
\* renamed, or it had replaced path
AtomicWriteKilled(path, content) ==
    { [files |-> files, temps |-> temps],
      [files |-> files, temps |-> temps \cup {[of |-> path, content |-> Truncated]}],
      [files |-> files, temps |-> temps \cup {[of |-> path, content |-> content]}],
      [files |-> FilesWith(path, content), temps |-> temps] }

\* the content written into the file itself, as path.write_text(content)
\* does: a kill leaves the file emptied, cut short or complete
WriteKilledInPlace(path, content) ==
    { [files |-> FilesWith(path, Truncated), temps |-> temps],
      [files |-> FilesWith(path, content), temps |-> temps] }

\* the write of an exported page and of a rewritten file, killed: both are
\* calls of atomic_write_text
WriteKilled(path, content) == AtomicWriteKilled(path, content)

\* the process is killed in on_post_page while it writes the next page: the
\* parent directories have been made
KillInExport ==
    /\ pc = "pages"
    /\ page_idx < Len(pages)
    /\ LET k == page_idx + 1
           output_file == OutputFile(pages[k])
       IN  /\ "exported" \in Outcomes(k)
           /\ dirs' = dirs \cup MissingParents(output_file)
           /\ \E after \in WriteKilled(output_file, Exported(k)) :
                files' = after.files /\ temps' = after.temps
    /\ pc' = "killed"
    /\ UNCHANGED <<renamed_files, index_files, idx, collapsed_count, todo,
                   updated_count, written, files0, dirs0, filesC>>
    /\ UNCHANGED buildVars
    /\ UNCHANGED <<env, log_level, cache_type, renamed_ever, single_file_content>>

\* the process is killed in _collapse_structure at a directory it
\* collapses: before index_file.rename(new_path), or after it and before
\* parent_dir.rmdir()
KillInCollapse ==
    /\ pc = "collapsing"
    /\ idx <= Len(index_files)
    /\ LET index_file == index_files[idx]
           parent_dir == Parent(index_file)
           new_path == WithSuffix(parent_dir, MD_SUFFIX)
       IN  /\ ~IsRoot(parent_dir)
           /\ parent_dir \in dirs
           /\ CollapseCriterion(parent_dir)
           /\ CanRename(index_file, new_path)
           /\ renamed_files' = DictSet(renamed_files, Str(index_file), Str(new_path))
           /\ files' \in {files, RenameFile(index_file, new_path)}
    /\ pc' = "killed"
    /\ UNCHANGED <<dirs, index_files, idx, collapsed_count, todo,
                   updated_count, written, files0, dirs0, filesC>>
    /\ UNCHANGED buildVars
    /\ UNCHANGED extVars

\* the process is killed in _update_cross_references while it writes a
\* file in which a pattern occurred
KillInRewrite ==
    /\ pc = "rewriting"
    /\ \E md_file \in todo \cap FilePaths :
         LET r == RewriteLinks(files[md_file].links, AllPatterns(renamed_files), FALSE)
         IN  /\ r.updated
             /\ \E after \in WriteKilled(md_file, [files[md_file] EXCEPT !.links = r.links]) :
                  files' = after.files /\ temps' = after.temps
    /\ pc' = "killed"
    /\ UNCHANGED <<dirs, renamed_files, index_files, idx, collapsed_count, todo,
                   updated_count, written, files0, dirs0, filesC>>
    /\ UNCHANGED buildVars
    /\ UNCHANGED <<env, log_level, cache_type, renamed_ever, single_file_content>>

\* a build starts over the tree an earlier build of some of the pages left
\* in mirror structure, before index.md got its link; there is no cache
InitCrash ==
    /\ \E structure \in {"mirror", "collapsed"} :
       \E K \in {K \in SUBSET SitePages : K # {} /\ Cardinality(K) <= MaxPages} :
       \E J \in SUBSET K :
         /\ config = [structure |-> structure, incremental |-> FALSE,
                      include_api_reference |-> TRUE, single_file |-> FALSE,
                      verbose |-> FALSE]
         /\ pages = PagesAt(K, 1)
         /\ \E links \in [DOMAIN pages -> UNION {SiteLinks(CandidatePages[j]) : j \in K}] :
              /\ \A k \in DOMAIN pages : links[k] \in SiteLinks(pages[k])
              /\ source = [k \in DOMAIN pages |->
                             [exists |-> TRUE, mtime |-> PriorTime, links |-> links[k]]]
         /\ files = [f \in {OutputFile(CandidatePages[j]) : j \in J} |->
                       [id |-> f, links |-> <<>>]]
         /\ dirs = DirsOf({OutputFile(CandidatePages[j]) : j \in J})
    /\ cache_file = NoFile
    /\ page_idx = 0
    /\ manifest = NoFile
    /\ last = NoCall
    /\ saved = NoFile
    /\ Constructed
    /\ Quiet
    /\ renamed_files = <<>>
    /\ index_files = <<>>
    /\ idx = 0
    /\ collapsed_count = 0
    /\ todo = {}
    /\ updated_count = 0
    /\ written = {}
    /\ pc = "config"
    /\ files0 = files
    /\ dirs0 = dirs
    /\ filesC = files

NextCrash ==
    \/ NextBuild
    \/ KillInExport
    \/ KillInCollapse
    \/ KillInRewrite

SpecCrash == InitCrash /\ [][NextCrash]_vars

----------------------------------------------------------------------------
(* Claims *)

\* C1: after one Collapser pass no directory below the root satisfies the
\* collapse criterion, so a second pass would find nothing to collapse.
C1_NoCollapsibleDirLeft ==
    Collapsed => \A d \in dirs : ~CollapseCriterion(d)

\* the original index document of directory d
IndexOf(d) == d \o <<INDEX_MD>>

\* the links of file f before the Rewriter ran, and now
LinkBefore(f, k) == filesC[f].links[k]
LinkNow(f, k) == files[f].links[k]

\* C2: after the Collapser and rewrite-all, in every file (whatever its
\* directory) a link that pointed at a renamed path points at the path it
\* was renamed to, and every other link is as it was.  A link is resolved
\* against the directory of the file that holds it.  Files the Collapser
\* moved are left out, and a link that points at no renamed path is only
\* required to be unchanged when its text spells no RenameMap key either.
C2_LinksFollowRenames ==
    Rewritten =>
      \A f \in FilePaths :
        files[f].id = f =>
          \A k \in DOMAIN files[f].links :
            LET pointed == Resolve(f, LinkBefore(f, k))
                hit == {e \in Items : pointed \in {PathOf(e[1]), Parent(PathOf(e[1]))}}
                spelt == {e \in Items : LinkBefore(f, k) \in Spellings(e[1])}
            IN  /\ \A e \in hit : Resolve(f, LinkNow(f, k)) = PathOf(e[2])
                /\ (hit = {} /\ spelt = {}) => LinkNow(f, k) = LinkBefore(f, k)

\* C3: when the Collapser has completed, no key of the RenameMap exists in
\* the output tree and every value exists there as a file.
C3_KeysGoneValuesExist ==
    Collapsed =>
      \A e \in Items : PathOf(e[1]) \notin Entries /\ PathOf(e[2]) \in FilePaths

\* directory d held, when the pass started, an index document and another
\* markdown file, or a subdirectory
GuardedAtStart(d) ==
    \/ /\ IndexOf(d) \in DOMAIN files0
       /\ \E p \in DOMAIN files0 :
            Parent(p) = d /\ p # IndexOf(d) /\ EndsWith(Name(p), MD_SUFFIX)
    \/ \E c \in dirs0 : Parent(c) = d

\* C4: a directory that starts the pass with an index document and another
\* markdown file, or with a subdirectory, is still there afterwards, its
\* index document is at the same path with the same content, and the
\* RenameMap has no key for that index document.
C4_GuardedDirUntouched ==
    Collapsed =>
      \A d \in dirs0 :
        GuardedAtStart(d) =>
          /\ d \in dirs
          /\ IndexOf(d) \in DOMAIN files0 =>
               IndexOf(d) \in FilePaths /\ files[IndexOf(d)] = files0[IndexOf(d)]
          /\ Str(IndexOf(d)) \notin Keys(renamed_files)

\* C5: an index document at the output root stays at the root path, and the
\* RenameMap never has a key equal to it.
C5_RootIndexKept ==
    <<INDEX_MD>> \in DOMAIN files0 =>
      /\ <<INDEX_MD>> \in FilePaths
      /\ Str(<<INDEX_MD>>) \notin Keys(renamed_files)

\* C5 witness: a pass over a tree with a root index document has completed
\* and collapsed another directory
C5_Witness ==
    /\ Collapsed
    /\ <<INDEX_MD>> \in DOMAIN files0
    /\ <<INDEX_MD>> \in {index_files[k] : k \in DOMAIN index_files}
    /\ renamed_files # <<>>

ChainIndex == <<N_a, N_b, N_c, INDEX_MD>>
ChainFile == <<N_a, N_b, <<99, 46, 109, 100>>>>

\* C6: for the chain a/b/c/index.md one pass removes directory a/b/c, leaves
\* a/b/c.md with the original content and records the key a/b/c/index.md.
C6_ChainCollapsed ==
    (Collapsed /\ ChainIndex \in DOMAIN files0) =>
      /\ Parent(ChainIndex) \notin dirs
      /\ ChainIndex \notin FilePaths
      /\ ChainFile \in FilePaths
      /\ files[ChainFile] = files0[ChainIndex]
      /\ Str(ChainIndex) \in Keys(renamed_files)

\* C6 witness: the tree held nothing but the chain and the pass has completed
C6_Witness ==
    /\ Collapsed
    /\ DOMAIN files0 = {ChainIndex}
    /\ ChainFile \in FilePaths

\* C7: a collapsed directory D is gone, the RenameMap maps D/index.md to D's
\* full path with ".md" appended, and the index document's content is there.
C7_MdAppended ==
    Collapsed =>
      \A e \in Items :
        LET old == PathOf(e[1])
            d == Parent(old)
        IN  /\ e[2] = Str(d) \o MD_SUFFIX
            /\ d \notin dirs
            /\ PathOf(e[2]) \in FilePaths
            /\ files[PathOf(e[2])] = files0[old]

\* C8: of two index documents below the root, one in a directory nested in
\* the other's, the nested one comes first in the order of examination.
C8_DeepestFirst ==
    \A i \in DOMAIN index_files : \A j \in DOMAIN index_files :
      (/\ ~IsRoot(Parent(index_files[i]))
       /\ IsPrefix(Parent(index_files[i]), Parent(index_files[j]))) => j < i

\* an item that maps D/index.md to D.md
AppendedItem(e) ==
    /\ EndsWith(e[1], SEP \o INDEX_MD)
    /\ e[2] = DropLast(e[1], IndexSuffixLen) \o MD_SUFFIX

\* C9: rewrite-all turns every link target spelled D/index.md, D or D/ into
\* D.md, for every item D/index.md -> D.md of the RenameMap, and leaves a
\* link whose target is no spelling of any item as it was.
C9_SpellingsRewritten ==
    Rewritten =>
      \A f \in FilePaths : \A k \in DOMAIN files[f].links :
        /\ \A e \in Items :
             (AppendedItem(e) /\ LinkBefore(f, k) \in Spellings(e[1]))
               => LinkNow(f, k) = e[2]
        /\ (\A e \in Items : LinkBefore(f, k) \notin Spellings(e[1]))
               => LinkNow(f, k) = LinkBefore(f, k)

\* C9 witness: one file had links spelling two items D/index.md -> D.md, and
\* both links were rewritten, each to its own D.md
C9_Witness ==
    /\ Rewritten
    /\ \A e \in Items : AppendedItem(e)
    /\ \E f \in FilePaths : \E j \in DOMAIN files[f].links : \E k \in DOMAIN files[f].links :
         /\ LinkNow(f, j) # LinkBefore(f, j)
         /\ LinkNow(f, k) # LinkBefore(f, k)
         /\ LinkNow(f, j) # LinkNow(f, k)

\* file f held, when the Rewriter started, a link matching some item
HadMatch(f) ==
    \E k \in DOMAIN filesC[f].links : \E e \in Items :
      filesC[f].links[k] \in Spellings(e[1])

\* C10: rewrite-all writes and counts a file exactly when the file held a
\* link matching a RenameMap item; a file not written has its content as
\* it was.
C10_WrittenIffMatched ==
    Rewritten =>
      /\ \A f \in FilePaths :
           /\ f \in written <=> (renamed_files # <<>> /\ HadMatch(f))
           /\ f \notin written => files[f] = filesC[f]
      /\ updated_count = Cardinality(written)

\* C10 witness: a pass with renames wrote one file and left another alone
C10_Witness ==
    /\ Rewritten
    /\ renamed_files # <<>>
    /\ written # {}
    /\ updated_count = 1
    /\ \E f \in FilePaths : f \notin written /\ filesC[f].links # <<>>

\* C14: the Collapser never changes the content of a file: a file it moved
\* has its content at the new path, every other file is at its path with
\* its content; the Rewriter neither creates, deletes nor renames a file.
C14_ContentKept ==
    /\ Collapsed =>
         \A f \in DOMAIN files0 :
           IF Str(f) \in Keys(renamed_files)
           THEN \E e \in Items :
                  /\ e[1] = Str(f)
                  /\ PathOf(e[2]) \in FilePaths
                  /\ files[PathOf(e[2])] = files0[f]
           ELSE f \in FilePaths /\ files[f] = files0[f]
    /\ pc \in {"rewriting", "done"} => DOMAIN files = DOMAIN filesC

\* the name of an index document, spelled out
IndexDocName == <<105, 110, 100, 101, 120, 46, 109, 100>>

\* directory d holds one markdown file that is no index document, and
\* nothing else
OnlyNonIndex(d) ==
    /\ d \in dirs
    /\ \E f \in FilePaths :
         /\ {p \in Entries : Parent(p) = d} = {f}
         /\ EndsWith(Name(f), MD_SUFFIX)
         /\ Name(f) # IndexDocName

\* C15: a directory whose only content is one markdown file that is not the
\* index document is not collapsed by any step of the pass: the directory
\* and its file stay as they are, also when the directory got into this
\* state during the pass because its only child directory was collapsed
\* into it.
C15_SoleNonIndexKept ==
    [][\A d \in dirs :
         OnlyNonIndex(d) =>
           /\ d \in dirs'
           /\ \A f \in FilePaths :
                Parent(f) = d => (f \in DOMAIN files' /\ files'[f].id = files[f].id)]_vars

\* C15 witness: the pass has completed, it collapsed the only child
\* directory of a directory, and that directory now holds one non-index
\* markdown file and is still there
C15_Witness ==
    /\ Collapsed
    /\ renamed_files # <<>>
    /\ \E d \in dirs :
         /\ OnlyNonIndex(d)
         /\ \E c \in dirs0 : Parent(c) = d /\ c \notin dirs
         /\ \A p \in DOMAIN files0 : Parent(p) # d

\* the <<old, new>> pairs of the files this step moved
MovedNow ==
    {m \in {<<f, g>> : f \in FilePaths, g \in DOMAIN files'} :
       /\ m[1] \notin DOMAIN files'
       /\ files'[m[2]] = files[m[1]]
       /\ (m[2] \in FilePaths => files[m[2]] # files[m[1]])}

\* C16: in every step of the Collapser, also one in which moving the index
\* document or removing the directory fails, the RenameMap gains the entry
\* old -> new exactly when the file was moved from old to new.
C16_EntryIffMoved ==
    [][pc = "collapsing" =>
         {<<PathOf(e[1]), PathOf(e[2])>> : e \in Items' \ Items} = MovedNow]_vars

\* the path the RenameMap gives for a recorded path p
RenamedOrSame(p) ==
    IF \E e \in Items : e[1] = p THEN (CHOOSE e \in Items : e[1] = p)[2] ELSE p

\* C11: the API manifest written at the end of a build lists, for every
\* path recorded for an API page, the path the RenameMap maps it to (the
\* path itself when it was not renamed), in ascending order, as many lines
\* as paths were recorded, with that number in its header, and no line is
\* the pre-rename path of a collapsed file.
C11_ManifestPaths ==
    (pc = "built" /\ api_files # <<>>) =>
      /\ manifest # NoFile
      /\ Len(manifest[1].paths) = Len(api_files)
      /\ \A k \in DOMAIN api_files :
           \E i \in DOMAIN manifest[1].paths : manifest[1].paths[i] = RenamedOrSame(api_files[k])
      /\ \A i \in DOMAIN manifest[1].paths :
           \E k \in DOMAIN api_files : manifest[1].paths[i] = RenamedOrSame(api_files[k])
      /\ \A i \in DOMAIN manifest[1].paths : \A j \in DOMAIN manifest[1].paths :
           i < j => ~StrLess(manifest[1].paths[j], manifest[1].paths[i])
      /\ manifest[1].total = Len(api_files)
      /\ \A i \in DOMAIN manifest[1].paths : manifest[1].paths[i] \notin Keys(renamed_files)

\* the entries of a dict
DictItems(m) == {m[k] : k \in DOMAIN m}

\* C12: a cache mapping saved by one instance and then loaded by a fresh
\* instance using the same cache file is equal to the mapping that was
\* saved: the same keys, each with the same time.
C12_CacheRoundTrip ==
    (pc = "pages" /\ page_idx = 0 /\ config.incremental /\ saved # NoFile) =>
      /\ DictItems(cache) = DictItems(saved[1])
      /\ Cardinality(Keys(cache)) = Len(cache)

\* C12 witness: a fresh instance has loaded a mapping of two entries with
\* different times, one of them with a fraction of a second
C12_Witness ==
    /\ pc = "pages"
    /\ saved # NoFile
    /\ Len(saved[1]) = 2
    /\ cache[1][2] # cache[2][2]
    /\ \E k \in DOMAIN cache : cache[k][2] % 10 # 0

\* on_post_build is in the Collapser, in the Rewriter
InCollapser == pc \in {"collapse", "collapsing"}
InRewriter == pc \in {"rewrite", "rewriting"}

\* C13: the Collapser and the Rewriter run only when the structure option
\* is "collapsed"; the Rewriter starts only after the Collapser's loop has
\* examined every index document; the RenameMap is not modified while the
\* Rewriter runs; with "mirror" on_post_build moves no file.
C13_CollapseThenRewrite ==
    [][/\ (InCollapser' \/ InRewriter') => config.structure = "collapsed"
       /\ InRewriter' => (idx' > Len(index_files') /\ ~InCollapser')
       /\ InRewriter => renamed_files' = renamed_files
       /\ (config.structure = "mirror" /\ pc \notin {"config", "pages"}) =>
            (files' = files /\ dirs' = dirs /\ renamed_files' = <<>>)]_vars

\* C13 witness: a build with the collapsed structure is over; the Collapser
\* collapsed two directories and the Rewriter went through the files
C13_Witness ==
    /\ pc = "built"
    /\ config.structure = "collapsed"
    /\ Len(renamed_files) = 2
    /\ collapsed_count = 2
    /\ todo = {}
    /\ filesC = files

\* C17: a failure of the file system while a directory is collapsed or a
\* file is rewritten does not leave on_post_build as an exception.
C17_NoFailureLeaves == pc # "raised"

\* the step is an on_post_page call
PageCall == pc = "pages" /\ page_idx' = page_idx + 1

\* the page of the call reaches _export_page_markdown
Reached(page) == config.include_api_reference \/ ~IsApiReference(page)

\* the call's read of the source, its write of the output or its mkdir of
\* the output's parents failed
CallFailed == last'.outcome \in {"read_failed", "write_failed", "mkdir_failed"}

\* C18: when reading the page's source or writing its output fails, a
\* failure to create the parent directories included, the call does not
\* raise, the output tree is as it was before the call, and the host goes
\* on with the following pages.
C18_FailureContained ==
    [][(PageCall /\ CallFailed) =>
         /\ pc' = "pages"
         /\ files' = files
         /\ dirs' = dirs]_vars

\* the cached time of the k-th page's source, 0 when there is none
CachedTime(k) ==
    LET hits == {e \in DictItems(cache) : e[1] = AbsSrcPath(pages[k])}
    IN  IF hits = {} THEN 0 ELSE (CHOOSE e \in hits : TRUE)[2]

\* C19: in incremental mode a page that reaches the export is skipped
\* (nothing is written, the skipped count goes up by one) exactly when its
\* source exists and the source's modification time is not newer than the
\* cached time, a missing entry counting as 0; when incremental mode is off
\* no such page is skipped.
C19_SkipIffUnchanged ==
    [][(PageCall /\ Reached(pages[page_idx'])) =>
         LET k == page_idx'
             skipped == files_skipped' = files_skipped + 1
         IN  /\ skipped <=> /\ config.incremental
                            /\ source[k].exists
                            /\ source[k].mtime <= CachedTime(k)
             /\ skipped => /\ files' = files
                           /\ dirs' = dirs
                           /\ files_processed' = files_processed
             /\ ~skipped => files_skipped' = files_skipped]_vars

\* C19 witness: an incremental build exported one page and then skipped a
\* page whose source is exactly as old as its cache entry
C19_Witness ==
    /\ pc = "pages"
    /\ config.incremental
    /\ config.include_api_reference
    /\ page_idx = 2
    /\ files_processed = 1
    /\ files_skipped = 1
    /\ last.outcome = "unchanged"
    /\ source[2].mtime = CachedTime(2)

\* C20: a call changes the cache only when it exported its page, and then
\* only that page's entry, which becomes the source's modification time; a
\* skipped or failed call leaves the cache as it was.
C20_CacheOnlyOnSuccess ==
    [][PageCall =>
         LET k == page_idx'
             key == AbsSrcPath(pages[k])
             exported == files_processed' = files_processed + 1
         IN  /\ cache' # cache =>
                  /\ exported
                  /\ OutputFile(pages[k]) \in DOMAIN files'
                  /\ <<key, source[k].mtime>> \in DictItems(cache')
                  /\ {e \in DictItems(cache') : e[1] # key}
                       = {e \in DictItems(cache) : e[1] # key}
             /\ ~exported => cache' = cache]_vars

\* C20 witness: an incremental build exported a page whose source was newer
\* than its cache entry, which now holds the newer time, and the write of
\* the next page failed
C20_Witness ==
    /\ pc = "pages"
    /\ config.incremental
    /\ page_idx = 2
    /\ files_processed = 1
    /\ last.outcome = "write_failed"
    /\ cache_file # NoFile
    /\ cache # LoadCache(cache_file)
    /\ source[1].mtime > PriorTime
    /\ <<AbsSrcPath(pages[1]), source[1].mtime>> \in DictItems(cache)
    /\ AbsSrcPath(pages[2]) \notin Keys(cache)

\* C26: a Collapser pass neither overwrites nor loses a file: the tree
\* holds as many files after the pass as before, the content of every file
\* that was there before the pass is there afterwards at some path, and no
\* two RenameMap entries have the same new path.
C26_NoFileLost ==
    Collapsed =>
      /\ Cardinality(FilePaths) = Cardinality(DOMAIN files0)
      /\ \A f \in DOMAIN files0 : \E p \in FilePaths : files[p].id = f
      /\ \A i \in DOMAIN renamed_files : \A j \in DOMAIN renamed_files :
           renamed_files[i][2] = renamed_files[j][2] => i = j

\* what the patterns, tried in order, make of one link target
RECURSIVE FinalTarget(_, _)
FinalTarget(t, pats) ==
    IF pats = <<>> THEN t
    ELSE FinalTarget(IF t = pats[1][1] THEN pats[1][2] ELSE t, Tail(pats))

\* some pattern, tried in order, matches the link target
RECURSIVE Touched(_, _)
Touched(t, pats) ==
    IF pats = <<>> THEN FALSE
    ELSE \/ t = pats[1][1]
         \/ Touched(IF t = pats[1][1] THEN pats[1][2] ELSE t, Tail(pats))

\* the files of the collapsed tree in which some link matches some pattern
FilesWithMatch ==
    {p \in DOMAIN filesC :
       \E k \in DOMAIN filesC[p].links :
          Touched(filesC[p].links[k], AllPatterns(renamed_files))}

\* the outcome of the rewrite pass is a function of the collapsed tree and
\* the RenameMap alone
RewriteDetermined ==
    /\ DOMAIN files = DOMAIN filesC
    /\ \A p \in DOMAIN files :
         /\ files[p].id = filesC[p].id
         /\ DOMAIN files[p].links = DOMAIN filesC[p].links
         /\ \A k \in DOMAIN files[p].links :
              files[p].links[k] =
                FinalTarget(filesC[p].links[k], AllPatterns(renamed_files))
    /\ updated_count = Cardinality(FilesWithMatch)
    /\ written = FilesWithMatch

\* C23: whatever the order in which the Rewriter takes the files, the final
\* content of every file and the number of files counted as updated are the
\* same, fixed by the collapsed tree and the RenameMap; and the RenameMap is
\* the same after every step of the Rewriter as before it.  (The step that
\* ends the pass writes nothing, so the pass ends as that step finds it.)
C23_OrderIndependent ==
    [][ /\ InRewriter => renamed_files' = renamed_files
        /\ (~Rewritten /\ Rewritten') =>
             /\ RewriteDetermined
             /\ files' = files
             /\ filesC' = filesC
             /\ updated_count' = updated_count
             /\ written' = written ]_vars

\* two files were rewritten, each holding a link that a pattern matches
C23_Witness ==
    /\ Rewritten
    /\ updated_count = 2
    /\ Cardinality(written) = 2
    /\ \A p \in written : files[p].links # filesC[p].links

\* the names "reference" and "SUMMARY.md"
SegReference == <<114, 101, 102, 101, 114, 101, 110, 99, 101>>
SegSummary == <<83, 85, 77, 77, 65, 82, 89, 46, 109, 100>>

\* the page's source path has a segment named "reference" or "api", or its
\* file is named SUMMARY.md
HasApiSegment(page) ==
    LET segs == PathOf(page.src_path)
    IN  \/ \E i \in DOMAIN segs : segs[i] \in {SegReference, N_api}
        \/ Last(segs) = SegSummary

\* C24: a page is classified as API reference exactly when its source path
\* has a segment named "reference" or "api", the first segment included, or
\* names SUMMARY.md; a call appends its page's output path to the manifest
\* list exactly when it exported a page so classified.
C24_ApiClassified ==
    [][PageCall =>
         LET page == pages[page_idx']
         IN  /\ IsApiReference(page) <=> HasApiSegment(page)
             /\ api_files' = IF last'.outcome = "exported" /\ HasApiSegment(page)
                             THEN Append(api_files, Str(OutputFile(page)))
                             ELSE api_files]_vars

\* the value a flag variable is set to reads as true, as false
SaysTrue(setting) ==
    setting # Unset /\ Lower(setting[1]) \in {<<116, 114, 117, 101>>, <<49>>, <<121, 101, 115>>}
SaysFalse(setting) ==
    setting # Unset /\ Lower(setting[1]) \in {<<102, 97, 108, 115, 101>>, <<48>>, <<110, 111>>}

\* the flag in effect is the one a recognised setting asks for
FlagFollows(setting, in_effect) ==
    /\ SaysTrue(setting) => in_effect
    /\ SaysFalse(setting) => ~in_effect

\* DOCS_STRUCTURE names one of the two structures
StructureNamed(name) ==
    env.DOCS_STRUCTURE # Unset /\ Lower(env.DOCS_STRUCTURE[1]) = name

\* on_config has returned
Configured == pc # "config"

\* C25: once on_config has run, each of the options include-API,
\* single-file, incremental, structure and verbosity whose environment
\* variable is set to a recognised value has the environment's value,
\* whatever the static configuration says; verbosity in effect is whether
\* the plugin's debug messages are written.
C25_EnvTakesPrecedence ==
    Configured =>
      /\ FlagFollows(env.DOCS_INCLUDE_API, config.include_api_reference)
      /\ FlagFollows(env.DOCS_SINGLE_FILE, config.single_file)
      /\ FlagFollows(env.DOCS_INCREMENTAL, config.incremental)
      /\ StructureNamed(S_mirror) => config.structure = "mirror"
      /\ StructureNamed(S_collapsed) => config.structure = "collapsed"
      /\ FlagFollows(env.DOCS_VERBOSE, DebugMessages)

\* C30: when DOCS_STRUCTURE is set to a value other than "mirror" and
\* "collapsed", the build uses the mirror structure whatever the static
\* configuration names: the option in effect is "mirror", and neither the
\* Collapser nor the Rewriter runs.
C30_InvalidStructureIsMirror ==
    (env.DOCS_STRUCTURE # Unset /\ ~StructureNamed(S_mirror) /\ ~StructureNamed(S_collapsed)) =>
      /\ Configured => config.structure = "mirror"
      /\ ~InCollapser
      /\ ~InRewriter
      /\ renamed_files = <<>>

\* the cache file is missing, cannot be decoded, cannot be parsed, or holds
\* a JSON value that is no object
NoMapping(file) ==
    file = NoFile \/ file[1] \in {ArrayText, CutShortText, UndecodableText}

\* C22: a cache file that is missing, unreadable, unparseable or that holds
\* no path-to-time mapping is taken as an empty cache, so that no page of
\* the build is skipped as unchanged; a failure to save the cache lets
\* on_post_build go on; no call is ended by an error of the cache.
C22_CacheFaultsTolerated ==
    [][ /\ (PageCall /\ config.incremental /\ NoMapping(cache_file)) =>
             last'.outcome \notin {"unchanged", "no_get"}
        /\ PageCall => last'.outcome # "no_get"
        /\ (pc \in {"done", "save"} /\ config.incremental) => pc' = "manifest" ]_vars

\* the spellings of the pre-collapse path of a directory whose index
\* document had the path old: D/index.md, D and D/
PreCollapseSpellings(old) ==
    LET D == DropLast(old, Len(SEP \o INDEX_MD))
    IN  {old, D, D \o SEP}

\* a build has ended
Built == pc = "built"

\* C27: over builds with the collapsed structure and incremental mode that
\* keep the cache and the output tree, at the end of each build no file of
\* the tree holds a link target spelled as the pre-collapse path of a
\* directory that this build or an earlier one collapsed.
C27_NoStaleLinkAcrossBuilds ==
    (Built /\ config.structure = "collapsed" /\ config.incremental) =>
      \A p \in FilePaths : \A i \in DOMAIN files[p].links :
        \A old \in renamed_ever : files[p].links[i] \notin PreCollapseSpellings(old)

\* the tree holds the file exported for the page, where it was written or
\* where the Collapser moved it
HasExport(page) == \E p \in FilePaths : files[p].id = OutputFile(page)

\* C28: over incremental builds that keep the cache file, whatever happens
\* to the output directory in between, a page is skipped as unchanged only
\* if its exported file is still in the tree, and at the end of a build in
\* which every page was exported or skipped every page has its exported
\* file in the tree.
C28_ExportPresentAfterBuild ==
    [][ /\ (PageCall /\ last'.outcome = "unchanged") => HasExport(pages[page_idx'])
        /\ (pc = "manifest" /\ pc' = "built"
              /\ files_processed + files_skipped = Len(pages)) =>
             \A k \in DOMAIN pages : HasExport(pages[k])' ]_vars

\* the file at p was exported for an API reference page
IsApiFile(p) ==
    \E k \in DOMAIN pages : IsApiReference(pages[k]) /\ files[p].id = OutputFile(pages[k])

\* C29: at the end of each incremental build the API manifest lists every
\* API reference file of the output tree, the files of the pages skipped
\* as unchanged in that build included.
C29_ManifestListsEveryApiFile ==
    (Built /\ config.incremental) =>
      \A p \in FilePaths :
        IsApiFile(p) =>
          /\ manifest # NoFile
          /\ \E i \in DOMAIN manifest[1].paths : manifest[1].paths[i] = Str(p)

\* the step is a kill of the process inside a write or a move
KillStep == pc # "killed" /\ pc' = "killed"

\* c is the complete content the interrupted operation was to leave at p:
\* the page's export, the index document moved to p, or the file at p with
\* its links rewritten
IsNewContent(p, c) ==
    \/ /\ pc = "pages"
       /\ p = OutputFile(pages[page_idx + 1])
       /\ c = Exported(page_idx + 1)
    \/ /\ pc = "collapsing"
       /\ \E q \in FilePaths : q \notin DOMAIN files' /\ Last(q) = INDEX_MD /\ c = files[q]
    \/ /\ pc = "rewriting"
       /\ p \in FilePaths
       /\ c.id = files[p].id
       /\ DOMAIN c.links = DOMAIN files[p].links
       /\ \A i \in DOMAIN c.links :
            c.links[i] = FinalTarget(files[p].links[i], AllPatterns(renamed_files))

\* C21: when the process is killed during an export write, a collapse move
\* or a cross-reference rewrite, every markdown file of the output tree
\* holds its complete previous content or its complete new content, never
\* a cut one.
C21_NoTornFile ==
    [][KillStep =>
         /\ \A p \in DOMAIN files' :
              /\ files'[p] # Truncated
              /\ \/ p \in FilePaths /\ files'[p] = files[p]
                 \/ IsNewContent(p, files'[p])]_vars

\* the process was killed while the temporary file of a write over an
\* existing file was cut short
C21_Witness ==
    /\ pc = "killed"
    /\ \E t \in temps : t.content = Truncated /\ t.of \in FilePaths

====
